---- MODULE Spec2Model ----
(***************************************************************************)
(* Page-selection parsing and page-level PDF operations of                 *)
(* n8n-nodes-pdf-tools.                                                    *)
(*                                                                         *)
(* A string is a sequence of one-character strings, so that split, trim,   *)
(* includes and parseInt are computed character by character as the        *)
(* JavaScript does.  A document is a sequence of pages; a page records the *)
(* input document and page number it was loaded from and its rotation.     *)
(***************************************************************************)
EXTENDS Integers, Sequences, FiniteSets, TLC

\* ------------------------------------------------------------------ bounds
\* Largest page count of an input document.
MaxPages == 3
\* Largest number of terms in a generated page-selection expression.
MaxTerms == 2
\* Largest number of input documents handed to a merge.
MaxDocs == 3

\* The number of records in a batch, and the pages of a record's document.
MaxItems == 2

MaxItemPages == 2

\* The number of further rotations applied to the output of a rotation.
MaxTurns == 2

\* --------------------------------------------------------- JavaScript values
\* The NaN that parseInt returns when no digit can be read.  It is a value
\* outside every page range of the model; arithmetic on it yields NaN and
\* every ordering comparison with it is false (see Lt, Le, Sub, Add).
NaN == -1000000

IsNaN(x) == x = NaN

Add(a, b) == IF IsNaN(a) \/ IsNaN(b) THEN NaN ELSE a + b

Sub(a, b) == IF IsNaN(a) \/ IsNaN(b) THEN NaN ELSE a - b

Lt(a, b) == ~IsNaN(a) /\ ~IsNaN(b) /\ a < b

Le(a, b) == ~IsNaN(a) /\ ~IsNaN(b) /\ a <= b

Ge(a, b) == ~IsNaN(a) /\ ~IsNaN(b) /\ a >= b

\* ------------------------------------------------------------------ strings
Digit == {"0", "1", "2", "3", "4", "5", "6", "7", "8", "9"}

DigitVal == "0" :> 0 @@ "1" :> 1 @@ "2" :> 2 @@ "3" :> 3 @@ "4" :> 4 @@
            "5" :> 5 @@ "6" :> 6 @@ "7" :> 7 @@ "8" :> 8 @@ "9" :> 9

\* The characters String.prototype.trim, parseInt and the regex class \s skip.
WhiteSpace == {" ", "\t", "\n"}

\* s.includes(c)
Includes(s, c) == \E i \in 1..Len(s) : s[i] = c

\* Index of the first character of s that lies in set cs (0 when none).
FirstIn(s, cs) ==
    IF \E i \in 1..Len(s) : s[i] \in cs
    THEN CHOOSE i \in 1..Len(s) : s[i] \in cs /\ \A j \in 1..(i - 1) : s[j] \notin cs
    ELSE 0

\* s.split(c) for a one-character separator: every occurrence cuts, empty
\* pieces are kept, and a string without the separator is its own only piece.
RECURSIVE Split(_, _)
Split(s, c) ==
    LET i == FirstIn(s, {c})
    IN IF i = 0 THEN <<s>>
       ELSE <<SubSeq(s, 1, i - 1)>> \o Split(SubSeq(s, i + 1, Len(s)), c)

\* s.split(/[cs]+/): a maximal run of separator characters cuts once.
RECURSIVE SplitRuns(_, _)
SplitRuns(s, cs) ==
    LET i == FirstIn(s, cs)
        j == CHOOSE k \in i..Len(s) :
                 /\ \A m \in i..k : s[m] \in cs
                 /\ (k = Len(s) \/ s[k + 1] \notin cs)
    IN IF i = 0 THEN <<s>>
       ELSE <<SubSeq(s, 1, i - 1)>> \o SplitRuns(SubSeq(s, j + 1, Len(s)), cs)

RECURSIVE TrimStart(_)
TrimStart(s) ==
    IF Len(s) > 0 /\ s[1] \in WhiteSpace THEN TrimStart(Tail(s)) ELSE s

RECURSIVE TrimEnd(_)
TrimEnd(s) ==
    IF Len(s) > 0 /\ s[Len(s)] \in WhiteSpace
    THEN TrimEnd(SubSeq(s, 1, Len(s) - 1)) ELSE s

\* s.trim()
Trim(s) == TrimEnd(TrimStart(s))

\* Value of a sequence of decimal digits.
RECURSIVE DigitsValue(_)
DigitsValue(ds) ==
    IF ds = <<>> THEN 0
    ELSE 10 * DigitsValue(SubSeq(ds, 1, Len(ds) - 1)) + DigitVal[ds[Len(ds)]]

\* parseInt(s) / parseInt(s, 10): skip leading white space, take an optional
\* sign, read the longest run of digits; NaN when there is no digit.
parseInt(s) ==
    LET t == TrimStart(s)
        signed == Len(t) > 0 /\ t[1] \in {"-", "+"}
        u == IF signed THEN Tail(t) ELSE t
        stop == FirstIn(u, {u[i] : i \in 1..Len(u)} \ Digit)
        k == IF stop = 0 THEN Len(u) ELSE stop - 1
    IN IF k = 0 THEN NaN
       ELSE IF signed /\ t[1] = "-" THEN 0 - DigitsValue(SubSeq(u, 1, k))
       ELSE DigitsValue(SubSeq(u, 1, k))

\* Case folding of the letters the inputs use; no parser in the source folds
\* case, so only the reading of the literal "all" in the properties uses it.
LowerCase(s) ==
    [i \in 1..Len(s) |-> IF s[i] = "A" THEN "a" ELSE IF s[i] = "L" THEN "l" ELSE s[i]]

\* ----------------------------------------------------------------- arrays
\* Array.prototype.flat on an array of arrays.
RECURSIVE Flat(_)
Flat(ss) == IF ss = <<>> THEN <<>> ELSE Head(ss) \o Flat(Tail(ss))

Range(s) == {s[i] : i \in 1..Len(s)}

\* [...new Set(a)]: first occurrences, in order.
RECURSIVE Dedup(_)
Dedup(a) ==
    IF a = <<>> THEN <<>>
    ELSE LET r == Dedup(SubSeq(a, 1, Len(a) - 1))
             x == a[Len(a)]
         IN IF x \in Range(r) THEN r ELSE Append(r, x)

\* Insert x into the ascending sequence s.
RECURSIVE InsertAsc(_, _)
InsertAsc(s, x) ==
    IF s = <<>> THEN <<x>>
    ELSE IF x <= Head(s) THEN <<x>> \o s
    ELSE <<Head(s)>> \o InsertAsc(Tail(s), x)

\* a.sort((x, y) => x - y) on an array of numbers without NaN.
RECURSIVE SortAsc(_)
SortAsc(a) == IF a = <<>> THEN <<>> ELSE InsertAsc(SortAsc(Tail(a)), Head(a))

Reverse(a) == [i \in 1..Len(a) |-> a[Len(a) + 1 - i]]

\* The rearrangements of a.
Rearrangements(a) ==
    {q \in [1..Len(a) -> Range(a)] :
        \A x \in Range(a) :
            Cardinality({i \in 1..Len(a) : q[i] = x}) =
            Cardinality({i \in 1..Len(a) : a[i] = x})}

\* a.sort((x, y) => y - x).  With a NaN in the array the comparator is
\* inconsistent (it returns NaN, read as 0, against every other element) and
\* the order is implementation-defined: every rearrangement is an outcome.
SortDescOutcomes(a) ==
    IF NaN \in Range(a) THEN Rearrangements(a) ELSE {Reverse(SortAsc(a))}

\* ------------------------------------------------------- page selection
\* A parser's answer: the array it returns, or a thrown NodeOperationError.
Returned(a) == [ok |-> TRUE, pages |-> a]

Thrown == [ok |-> FALSE, pages |-> <<>>]

\* A range expansion that swaps the ends of a reversed range.
RangeArray_Swapping(start, end) ==
    LET lo == IF IsNaN(start) \/ IsNaN(end) THEN 1 ELSE IF start <= end THEN start ELSE end
        hi == IF IsNaN(start) \/ IsNaN(end) THEN 0 ELSE IF start <= end THEN end ELSE start
    IN [i \in 1..(hi - lo + 1) |-> lo + (i - 1) - 1]

\* Array.from({length: end - start + 1}, (_, i) => start + i - 1): a length
\* that is NaN or negative makes the empty array.
RangeArray(start, end) ==
    LET length == IF IsNaN(start) \/ IsNaN(end) THEN 0
                  ELSE IF end - start + 1 < 0 THEN 0 ELSE end - start + 1
    IN [i \in 1..length |-> start + (i - 1) - 1]

\* The arrow function mapped over pages.split(',').
validateTerm(p) ==
    LET trimmed == Trim(p)
        ends == Split(trimmed, "-")
    IN IF Includes(trimmed, "-")
       THEN RangeArray(parseInt(ends[1]), parseInt(ends[2]))
       ELSE <<Sub(parseInt(trimmed), 1)>>

\* A validatePageSelection that drops the numbers outside the document
\* instead of throwing.
validatePageSelection_Lenient(pages, pageCount) ==
    LET parts == Split(pages, ",")
        pageNumbers == Flat([k \in 1..Len(parts) |-> validateTerm(parts[k])])
    IN Returned(SelectSeq(pageNumbers,
                          LAMBDA x : ~(Lt(x, 0) \/ Ge(x, pageCount))))

\* PdfOperations.validatePageSelection
validatePageSelection(pages, pageCount) ==
    LET parts == Split(pages, ",")
        pageNumbers == Flat([k \in 1..Len(parts) |-> validateTerm(parts[k])])
    IN IF \E i \in 1..Len(pageNumbers) :
              Lt(pageNumbers[i], 0) \/ Ge(pageNumbers[i], pageCount)
       THEN Thrown
       ELSE Returned(pageNumbers)

\* The loop  for (i = start; i <= end; i++) if (i >= 0 && i < pageCount) push(i).
RECURSIVE selectionLoop(_, _, _)
selectionLoop(i, end, pageCount) ==
    IF ~Le(i, end) THEN <<>>
    ELSE (IF i >= 0 /\ i < pageCount THEN <<i>> ELSE <<>>)
         \o selectionLoop(i + 1, end, pageCount)

\* The callback of selection.split(',').forEach in parsePageSelection.
selectionPart(part, pageCount) ==
    LET ends == Split(part, "-")
        index == Sub(parseInt(Trim(part)), 1)
    IN IF Includes(part, "-")
       THEN selectionLoop(Sub(parseInt(Trim(ends[1])), 1),
                          Sub(parseInt(Trim(ends[2])), 1), pageCount)
       ELSE IF Ge(index, 0) /\ Lt(index, pageCount) THEN <<index>> ELSE <<>>

\* PdfTools.parsePageSelection (second variant of the node)
parsePageSelection(selection, pageCount) ==
    LET parts == Split(selection, ",")
        pages == Flat([k \in 1..Len(parts) |-> selectionPart(parts[k], pageCount)])
    IN Returned(SortAsc(Dedup(pages)))

\* The loop  for (i = start; i <= end && i <= maxPages; i++) push(i - 1).
RECURSIVE rangesLoop(_, _, _)
rangesLoop(i, end, maxPages) ==
    IF ~(i <= end /\ i <= maxPages) THEN <<>>
    ELSE <<i - 1>> \o rangesLoop(i + 1, end, maxPages)

\* The body of  for (const part of parts)  in parsePageRanges.
rangesPart(part, maxPages) ==
    LET ends == Split(part, "-")
        start == parseInt(Trim(ends[1]))
        end == parseInt(Trim(ends[2]))
        p == parseInt(Trim(part))
    IN IF Includes(part, "-")
       THEN (IF ~IsNaN(start) /\ ~IsNaN(end) THEN rangesLoop(start, end, maxPages)
             ELSE <<>>)
       ELSE IF ~IsNaN(p) /\ p >= 1 /\ p <= maxPages THEN <<p - 1>> ELSE <<>>

\* parsePageRanges of the Split PDF (page extraction) node
parsePageRanges(input, maxPages) ==
    LET parts == SplitRuns(input, WhiteSpace \cup {";", ","})
        pages == Flat([k \in 1..Len(parts) |-> rangesPart(parts[k], maxPages)])
    IN Returned(SortAsc(Dedup(pages)))

\* ------------------------------------------------------------ documents
\* Rotation stored on page i of an input document: 180, 270, 0, 90, ...
InitialRotation(i) == (90 * (i + 1)) % 360

\* page.getSize() of page i of an input document (pages differ in size).
PageSize(i) == [width |-> 200 * (i + 1), height |-> 300 * (i + 1)]

\* PDFDocument.load of input document d with n pages; nothing has been drawn
\* on a page by the program yet.
Doc(d, n) ==
    [i \in 1..n |-> [doc |-> d, num |-> i, rot |-> InitialRotation(i),
                     size |-> PageSize(i), draws |-> <<>>]]

\* Whether pdf-lib finds a page at index i (getPage, getPages()[i], copyPages
\* and removePage all fail on NaN, on a negative index and on i >= page count).
HasPage(doc, i) == ~IsNaN(i) /\ 0 <= i /\ i < Len(doc)

\* pdfDoc.removePage(i) where HasPage(doc, i).
removePage(doc, i) == SubSeq(doc, 1, i) \o SubSeq(doc, i + 2, Len(doc))

\* pagesToDelete.forEach(page => pdfDoc.removePage(page)): the first index
\* without a page throws and leaves the removals made so far.
RECURSIVE removeEach(_, _)
removeEach(doc, indices) ==
    IF indices = <<>> THEN [ok |-> TRUE, doc |-> doc]
    ELSE IF ~HasPage(doc, Head(indices)) THEN [ok |-> FALSE, doc |-> doc]
    ELSE removeEach(removePage(doc, Head(indices)), Tail(indices))

\* for (const index of indices) { [p] = await newDoc.copyPages(src, [index]);
\* newDoc.addPage(p) }, and newPdf.copyPages(src, indices) followed by addPage
\* of each: the pages at the indices, in the order given; an index without a
\* page throws.
copyPages(src, indices) ==
    IF \A k \in 1..Len(indices) : HasPage(src, indices[k])
    THEN [ok |-> TRUE, doc |-> [k \in 1..Len(indices) |-> src[indices[k] + 1]]]
    ELSE [ok |-> FALSE, doc |-> <<>>]

\* ------------------------------------------------------------- the inputs
\* A caller writes a page expression as a list of terms joined by a
\* separator.  A term is a page number, a range, an empty term or a word.
DigitChar == <<"0", "1", "2", "3", "4", "5", "6", "7", "8", "9">>

RECURSIVE Str(_)
Str(k) == IF k < 10 THEN <<DigitChar[k + 1]>>
          ELSE Str(k \div 10) \o <<DigitChar[(k % 10) + 1]>>

PageTerm(k) == [kind |-> "page", a |-> k, b |-> k]

RangeTerm(a, b) == [kind |-> "range", a |-> a, b |-> b]

EmptyTerm == [kind |-> "empty", a |-> 0, b |-> 0]

WordTerm == [kind |-> "word", a |-> 0, b |-> 0]

\* The literal "all", written "all", "ALL" or " all ".
AllTerm(v) == [kind |-> "all", a |-> v, b |-> 0]

RenderTerm(t) ==
    CASE t.kind = "page" -> Str(t.a)
      [] t.kind = "range" -> Str(t.a) \o <<"-">> \o Str(t.b)
      [] t.kind = "empty" -> <<>>
      [] t.kind = "word" -> <<"a">>
      [] t.kind = "all" ->
            IF t.a = 1 THEN <<"a", "l", "l">>
            ELSE IF t.a = 2 THEN <<"A", "L", "L">>
            ELSE <<" ", "a", "l", "l", " ">>

RECURSIVE Join(_, _)
Join(ts, sep) ==
    IF Len(ts) = 0 THEN <<>>
    ELSE IF Len(ts) = 1 THEN RenderTerm(ts[1])
    ELSE RenderTerm(ts[1]) \o sep \o Join(Tail(ts), sep)

\* Page numbers 1..MaxPages+1 (the last one lies outside every document),
\* a forward range, two reversed ranges, a zero-based and an overlong range,
\* an empty term and a non-numeric term.
Terms ==
    {PageTerm(k) : k \in 1..(MaxPages + 1)}
    \cup {RangeTerm(1, 2), RangeTerm(2, 1), RangeTerm(3, 1), RangeTerm(0, 1),
          RangeTerm(2, MaxPages + 1)}
    \cup {EmptyTerm, WordTerm}

Separators == {<<",">>, <<",", " ">>, <<";">>, <<" ">>}

TermLists == UNION {[1..k -> Terms] : k \in 1..MaxTerms}

AllLists == {<<AllTerm(v)>> : v \in {1, 2, 3}}

\* The written expressions: a term list and the separator that joins it (one
\* term needs no separator, and is written with the comma).
Written ==
    {[terms |-> ts, sep |-> sp] : ts \in TermLists, sp \in Separators}
    \cup {[terms |-> ts, sep |-> <<",">>] : ts \in AllLists}

Expressions == {w \in Written : Len(w.terms) > 1 \/ w.sep = <<",">>}

PageCounts == 0..MaxPages

Angles == {90, 180, 270, -90}

\* ---------------------------------------------------------------- state
VARIABLES
    terms,       \* input: the terms the caller wrote
    sep,         \* input: the separator the caller joined them with
    pages,       \* input: the page expression string handed to the program
    angle,       \* input: the rotation angle handed to rotate (0 otherwise)
    pdfBuffers,  \* input: the documents handed to the program
    mimeType,    \* input: the declared type of the document attachment, or "absent"
    imageMimeType, \* input: the declared type of the image attachment, or "absent"
    position,    \* input: the x and y options of add-image and watermark
    operation,   \* the function or execute case that ran ("none" before)
    pageCount,   \* the page count the expression was resolved against
    selection,   \* what the page-selection parser answered
    pdfDoc,      \* the loaded document as the operation left it in memory
    outcome,     \* "none", "ok" (a result was returned) or "error" (thrown)
    output,      \* the document saved into the returned buffer
    turns,       \* the angles of the rotations applied to the output since
    node,        \* batch: the node whose execute runs ("none" outside a batch)
    items,       \* batch: the records of getInputData()
    continueOnFail, \* batch: the node's continue-on-fail setting
    propertyNames,  \* batch: the binary property names of the Merge PDF node
    itemIndex,   \* batch: the loop index of execute (1-based)
    returnData,  \* batch: the results pushed so far
    returned     \* batch: what execute handed back to its caller

inputs == <<terms, sep, pages, angle, pdfBuffers, mimeType, imageMimeType, position>>

batch == <<node, items, continueOnFail, propertyNames, itemIndex, returnData, returned>>

vars == <<inputs, operation, pageCount, selection, pdfDoc, outcome, output, turns, batch>>

\* What execute handed back: nothing yet, a thrown error, or the output data.
NotReturned == [state |-> "running", data |-> <<>>]

ThrownError == [state |-> "thrown", data |-> <<>>]

ReturnedData(d) == [state |-> "returned", data |-> d]

\* A NodeOperationError carrying { itemIndex } (counted from 1 here, as
\* itemIndex is in this model; the code counts from 0).
ThrownAt(k) == [state |-> "thrown", data |-> <<>>, itemIndex |-> k]

\* The defaults of dataPropertyName1, dataPropertyName2, dataPropertyNameOut.
DefaultNames ==
    [dataPropertyName1 |-> "data", dataPropertyName2 |-> "data",
     dataPropertyNameOut |-> "data"]

\* No batch is being run.
NoBatch ==
    /\ node = "none"
    /\ items = <<>>
    /\ continueOnFail = FALSE
    /\ propertyNames = DefaultNames
    /\ itemIndex = 0
    /\ returnData = <<>>
    /\ returned = NotReturned

\* A document attachment declared as a PDF, a PNG image, the default position.
DefaultPosition == [x |-> 50, y |-> 400]

ValidAttachments ==
    /\ mimeType = "application/pdf"
    /\ imageMimeType = "image/png"
    /\ position = DefaultPosition

\* Nothing has run yet.
Idle ==
    /\ operation = "none"
    /\ pageCount = 0
    /\ selection = Returned(<<>>)
    /\ pdfDoc = <<>>
    /\ outcome = "none"
    /\ output = <<>>
    /\ turns = <<>>

\* One record carrying one document and a page expression.
InitPages ==
    \E w \in Expressions, n \in PageCounts :
        /\ terms = w.terms
        /\ sep = w.sep
        /\ pages = Join(w.terms, w.sep)
        /\ angle = 0
        /\ pdfBuffers = <<Doc(1, n)>>
        /\ ValidAttachments
        /\ NoBatch
        /\ Idle

\* The same, with the angle of a rotation.
InitRotate ==
    \E w \in Expressions, n \in PageCounts, a \in Angles :
        /\ terms = w.terms
        /\ sep = w.sep
        /\ pages = Join(w.terms, w.sep)
        /\ angle = a
        /\ pdfBuffers = <<Doc(1, n)>>
        /\ ValidAttachments
        /\ NoBatch
        /\ Idle

\* An invocation ended as r = [ok, sel, pdfDoc, out] after resolving against
\* n pages.
Invoked(op, n, r) ==
    /\ outcome = "none"
    /\ operation' = op
    /\ pageCount' = n
    /\ selection' = r.sel
    /\ pdfDoc' = r.pdfDoc
    /\ outcome' = IF r.ok THEN "ok" ELSE "error"
    /\ output' = r.out
    /\ UNCHANGED <<inputs, turns, batch>>

\* The invocation threw before it loaded a document or resolved a page.
Rejected == [ok |-> FALSE, sel |-> Returned(<<>>), pdfDoc |-> <<>>, out |-> <<>>]

\* PdfOperations.ensureMimeType: whether the check passes.
ensureMimeType(binaryMimeType, expectedTypes) == binaryMimeType \in expectedTypes

\* First execute: items[i].binary?.[pdfBinaryName] is there and
\* ensureMimeType(pdfBinary, ['application/pdf']) passes.
PdfBinaryAccepted ==
    /\ mimeType # "absent"
    /\ ensureMimeType(mimeType, {"application/pdf"})

\* Second variant: this.helpers.assertBinaryData(i, 'pdfFile') finds the
\* attachment; its declared type is not looked at.
AssertBinaryData == mimeType # "absent"

\* ------------------------------------------------- the parsers, called alone
Resolved(sel) == [ok |-> sel.ok, sel |-> sel, pdfDoc |-> <<>>, out |-> <<>>]

CallValidatePageSelection ==
    \E n \in {Len(pdfBuffers[1])} :
        Invoked("validatePageSelection", n, Resolved(validatePageSelection(pages, n)))

CallParsePageSelection ==
    \E n \in {Len(pdfBuffers[1])} :
        Invoked("parsePageSelection", n, Resolved(parsePageSelection(pages, n)))

CallParsePageRanges ==
    \E n \in {Len(pdfBuffers[1])} :
        Invoked("parsePageRanges", n, Resolved(parsePageRanges(pages, n)))

NextSelect ==
    \/ CallValidatePageSelection
    \/ CallParsePageSelection
    \/ CallParsePageRanges

SpecSelect == InitPages /\ [][NextSelect]_vars

\* ------------------------------------------------------------------ delete
\* PdfOperations.deletePages: every way the call can end.
PdfOperations_deletePages(pdfBuffer, pgs) ==
    LET sel == validatePageSelection(pgs, Len(pdfBuffer))
    IN IF ~sel.ok
       THEN {[ok |-> FALSE, sel |-> sel, pdfDoc |-> pdfBuffer, out |-> <<>>]}
       ELSE {LET r == removeEach(pdfBuffer, pagesToDelete)
             IN [ok |-> r.ok, sel |-> sel, pdfDoc |-> r.doc,
                 out |-> IF r.ok THEN r.doc ELSE <<>>] :
             pagesToDelete \in SortDescOutcomes(sel.pages)}

\* PdfTools.deletePages of the second variant: no range syntax, no check.
PdfTools_deletePages(loaded, pgs) ==
    LET parts == Split(pgs, ",")
        parsed == [k \in 1..Len(parts) |-> Sub(parseInt(Trim(parts[k])), 1)]
    IN {LET r == removeEach(loaded, pagesToDelete)
        IN [ok |-> r.ok, sel |-> Returned(parsed), pdfDoc |-> r.doc,
            out |-> IF r.ok THEN r.doc ELSE <<>>] :
        pagesToDelete \in SortDescOutcomes(parsed)}

\* PdfTools.execute, case Operation.Delete.
Delete ==
    \E r \in (IF pages = <<>> \/ ~PdfBinaryAccepted THEN {Rejected}
              ELSE PdfOperations_deletePages(pdfBuffers[1], pages)) :
        Invoked("delete", Len(pdfBuffers[1]), r)

\* PdfTools.execute of the second variant, case 'delete'.
DeleteV2 ==
    \E r \in (IF ~AssertBinaryData THEN {Rejected}
              ELSE PdfTools_deletePages(pdfBuffers[1], pages)) :
        Invoked("deleteV2", Len(pdfBuffers[1]), r)

NextDelete == Delete \/ DeleteV2

SpecDelete == InitPages /\ [][NextDelete]_vars

\* ------------------------------------------------- extract, split, reorder
\* PdfOperations.extractPages, PdfOperations.splitPDF and
\* PdfOperations.reorderPages share one body: resolve with
\* validatePageSelection, then copy page by page into a new document.
PdfOperations_extractPages(pdfBuffer, pgs) ==
    LET selectedPages == validatePageSelection(pgs, Len(pdfBuffer))
        newPdf == copyPages(pdfBuffer, selectedPages.pages)
    IN IF ~selectedPages.ok
       THEN [ok |-> FALSE, sel |-> selectedPages, pdfDoc |-> pdfBuffer, out |-> <<>>]
       ELSE [ok |-> newPdf.ok, sel |-> selectedPages, pdfDoc |-> pdfBuffer,
             out |-> newPdf.doc]

PdfOperations_splitPDF(pdfBuffer, pgs) ==
    LET selectedPages == validatePageSelection(pgs, Len(pdfBuffer))
        newPdf == copyPages(pdfBuffer, selectedPages.pages)
    IN IF ~selectedPages.ok
       THEN [ok |-> FALSE, sel |-> selectedPages, pdfDoc |-> pdfBuffer, out |-> <<>>]
       ELSE [ok |-> newPdf.ok, sel |-> selectedPages, pdfDoc |-> pdfBuffer,
             out |-> newPdf.doc]

\* A reorder that resolves its order as the other operations' parsers do,
\* sorted and without repeats.
PdfOperations_reorderPages_Sorted(pdfBuffer, order) ==
    LET newOrder == validatePageSelection(order, Len(pdfBuffer))
        newDoc == copyPages(pdfBuffer, SortAsc(Dedup(newOrder.pages)))
    IN IF ~newOrder.ok
       THEN [ok |-> FALSE, sel |-> newOrder, pdfDoc |-> pdfBuffer, out |-> <<>>]
       ELSE [ok |-> newDoc.ok, sel |-> newOrder, pdfDoc |-> pdfBuffer,
             out |-> newDoc.doc]

PdfOperations_reorderPages(pdfBuffer, order) ==
    LET newOrder == validatePageSelection(order, Len(pdfBuffer))
        newDoc == copyPages(pdfBuffer, newOrder.pages)
    IN IF ~newOrder.ok
       THEN [ok |-> FALSE, sel |-> newOrder, pdfDoc |-> pdfBuffer, out |-> <<>>]
       ELSE [ok |-> newDoc.ok, sel |-> newOrder, pdfDoc |-> pdfBuffer,
             out |-> newDoc.doc]

\* PdfTools.splitPDF of the second variant.
PdfTools_splitPDF(loaded, pgs) ==
    LET selectedPages == parsePageSelection(pgs, Len(loaded))
        newPdf == copyPages(loaded, selectedPages.pages)
    IN [ok |-> newPdf.ok, sel |-> selectedPages, pdfDoc |-> loaded, out |-> newPdf.doc]

\* PdfTools.reorderPages of the second variant: numbers only, no check.
PdfTools_reorderPages_Skipping(loaded, order) ==
    LET parts == Split(order, ",")
        newOrder == [k \in 1..Len(parts) |-> Sub(parseInt(Trim(parts[k])), 1)]
        newDoc == copyPages(loaded, SelectSeq(newOrder, LAMBDA i : HasPage(loaded, i)))
    IN [ok |-> newDoc.ok, sel |-> Returned(newOrder), pdfDoc |-> loaded,
        out |-> newDoc.doc]

PdfTools_reorderPages(loaded, order) ==
    LET parts == Split(order, ",")
        newOrder == [k \in 1..Len(parts) |-> Sub(parseInt(Trim(parts[k])), 1)]
        newDoc == copyPages(loaded, newOrder)
    IN [ok |-> newDoc.ok, sel |-> Returned(newOrder), pdfDoc |-> loaded,
        out |-> newDoc.doc]

\* The body of the loop of SplitPdf.execute (page extraction node).
SplitPdf_execute(loaded, pagesParam) ==
    LET pagesToExtract == parsePageRanges(pagesParam, Len(loaded))
        newPdf == copyPages(loaded, pagesToExtract.pages)
    IN [ok |-> newPdf.ok, sel |-> pagesToExtract, pdfDoc |-> loaded, out |-> newPdf.doc]

\* PdfTools.execute, case Operation.ExtractPages.
ExtractPages ==
    \E r \in {IF pages = <<>> \/ ~PdfBinaryAccepted THEN Rejected
              ELSE PdfOperations_extractPages(pdfBuffers[1], pages)} :
        Invoked("extractPages", Len(pdfBuffers[1]), r)

\* PdfTools.execute, case Operation.Split.
SplitCase ==
    \E r \in {IF pages = <<>> \/ ~PdfBinaryAccepted THEN Rejected
              ELSE PdfOperations_splitPDF(pdfBuffers[1], pages)} :
        Invoked("split", Len(pdfBuffers[1]), r)

\* PdfTools.execute of the second variant, case 'split'.
SplitV2 ==
    \E r \in {IF ~AssertBinaryData THEN Rejected
              ELSE PdfTools_splitPDF(pdfBuffers[1], pages)} :
        Invoked("splitV2", Len(pdfBuffers[1]), r)

\* SplitPdf.execute on one item.
SplitPdfExecute ==
    \E r \in {SplitPdf_execute(pdfBuffers[1], pages)} :
        Invoked("SplitPdf", Len(pdfBuffers[1]), r)

NextExtract == ExtractPages \/ SplitCase \/ SplitV2 \/ SplitPdfExecute

SpecExtract == InitPages /\ [][NextExtract]_vars

\* PdfTools.execute, case Operation.Reorder.
Reorder ==
    \E r \in {IF pages = <<>> \/ ~PdfBinaryAccepted THEN Rejected
              ELSE PdfOperations_reorderPages(pdfBuffers[1], pages)} :
        Invoked("reorder", Len(pdfBuffers[1]), r)

\* PdfTools.execute of the second variant, case 'reorder'.
ReorderV2 ==
    \E r \in {IF ~AssertBinaryData THEN Rejected
              ELSE PdfTools_reorderPages(pdfBuffers[1], pages)} :
        Invoked("reorderV2", Len(pdfBuffers[1]), r)

NextReorder == Reorder \/ ReorderV2

SpecReorder == InitPages /\ [][NextReorder]_vars

\* ------------------------------------------------------------------ rotate
\* JavaScript's x % m: the remainder takes the sign of x.
Remainder(x, m) == IF x >= 0 THEN x % m ELSE 0 - ((0 - x) % m)

\* (currentRotation + angle) % 360
newRotation(currentRotation, a) == Remainder(currentRotation + a, 360)

\* pagesToRotate.forEach(pageIndex => ...): getPages()[pageIndex] of an index
\* without a page is undefined and reading its rotation throws, after the
\* pages before it were turned.
\* A loop that turns the page after the selected one.
RECURSIVE rotateEach_Neighbour(_, _, _)
rotateEach_Neighbour(doc, indices, a) ==
    IF indices = <<>> THEN [ok |-> TRUE, doc |-> doc]
    ELSE IF ~HasPage(doc, Head(indices)) THEN [ok |-> FALSE, doc |-> doc]
    ELSE LET k == Head(indices) + 1
             j == IF k < Len(doc) THEN k + 1 ELSE k
         IN rotateEach_Neighbour([doc EXCEPT ![j].rot = newRotation(doc[j].rot, a)],
                                 Tail(indices), a)

RECURSIVE rotateEach(_, _, _)
rotateEach(doc, indices, a) ==
    IF indices = <<>> THEN [ok |-> TRUE, doc |-> doc]
    ELSE IF ~HasPage(doc, Head(indices)) THEN [ok |-> FALSE, doc |-> doc]
    ELSE LET k == Head(indices) + 1
         IN rotateEach([doc EXCEPT ![k].rot = newRotation(doc[k].rot, a)],
                       Tail(indices), a)

\* PdfOperations.rotatePages
PdfOperations_rotatePages(pdfBuffer, pgs, a) ==
    LET pagesToRotate == validatePageSelection(pgs, Len(pdfBuffer))
        r == rotateEach(pdfBuffer, pagesToRotate.pages, a)
    IN IF ~pagesToRotate.ok
       THEN [ok |-> FALSE, sel |-> pagesToRotate, pdfDoc |-> pdfBuffer, out |-> <<>>]
       ELSE [ok |-> r.ok, sel |-> pagesToRotate, pdfDoc |-> r.doc,
             out |-> IF r.ok THEN r.doc ELSE <<>>]

\* PdfTools.rotatePages of the second variant.
PdfTools_rotatePages(loaded, pgs, a) ==
    LET pagesToRotate == parsePageSelection(pgs, Len(loaded))
        r == rotateEach(loaded, pagesToRotate.pages, a)
    IN [ok |-> r.ok, sel |-> pagesToRotate, pdfDoc |-> r.doc,
        out |-> IF r.ok THEN r.doc ELSE <<>>]

\* The values the second variant's rotationAngle option offers.
OptionAngles == {90, 180, 270}

\* PdfTools.execute, case Operation.Rotate (rotationAngle is any number).
Rotate ==
    \E r \in {IF pages = <<>> \/ ~PdfBinaryAccepted THEN Rejected
              ELSE PdfOperations_rotatePages(pdfBuffers[1], pages, angle)} :
        Invoked("rotate", Len(pdfBuffers[1]), r)

\* PdfTools.execute of the second variant, case 'rotate'.
RotateV2 ==
    /\ angle \in OptionAngles
    /\ \E r \in {IF ~AssertBinaryData THEN Rejected
                  ELSE PdfTools_rotatePages(pdfBuffers[1], pages, angle)} :
           Invoked("rotateV2", Len(pdfBuffers[1]), r)

NextRotate == Rotate \/ RotateV2

SpecRotate == InitRotate /\ [][NextRotate]_vars

\* The document a rotate returned is handed to the same operation again,
\* with the same page expression and angle a.
Again(r, a) ==
    /\ Len(turns) < MaxTurns
    /\ outcome = "ok"
    /\ selection' = r.sel
    /\ pdfDoc' = r.pdfDoc
    /\ outcome' = IF r.ok THEN "ok" ELSE "error"
    /\ output' = r.out
    /\ turns' = Append(turns, a)
    /\ UNCHANGED <<inputs, operation, pageCount, batch>>

\* PdfTools.execute, case Operation.Rotate, on the output of a rotate.
RotateAgain ==
    /\ operation = "rotate"
    /\ \E a \in Angles : Again(PdfOperations_rotatePages(output, pages, a), a)

\* PdfTools.execute of the second variant, case 'rotate', on the output of a
\* rotate.
RotateAgainV2 ==
    /\ operation = "rotateV2"
    /\ \E a \in OptionAngles : Again(PdfTools_rotatePages(output, pages, a), a)

\* One record with a document, a one-term page expression and an angle.
InitTurns ==
    \E w \in {e \in Expressions : Len(e.terms) = 1}, n \in PageCounts, a \in Angles :
        /\ terms = w.terms
        /\ sep = w.sep
        /\ pages = Join(w.terms, w.sep)
        /\ angle = a
        /\ pdfBuffers = <<Doc(1, n)>>
        /\ ValidAttachments
        /\ NoBatch
        /\ Idle

NextTurns == Rotate \/ RotateV2 \/ RotateAgain \/ RotateAgainV2

SpecTurns == InitTurns /\ [][NextTurns]_vars

\* ------------------------------------------------------------------- merge
\* pdf.getPageIndices()
getPageIndices(doc) == [k \in 1..Len(doc) |-> k - 1]

\* for (const pdfBuffer of pdfBuffers) { copiedPages = await
\* mergedPdf.copyPages(pdf, pdf.getPageIndices());
\* copiedPages.forEach(page => mergedPdf.addPage(page)) }
\* A merge loop that puts each document's pages before those already merged.
RECURSIVE mergeLoop_Prepending(_, _)
mergeLoop_Prepending(mergedPdf, buffers) ==
    IF buffers = <<>> THEN mergedPdf
    ELSE mergeLoop_Prepending(
             copyPages(Head(buffers), getPageIndices(Head(buffers))).doc \o mergedPdf,
             Tail(buffers))

RECURSIVE mergeLoop(_, _)
mergeLoop(mergedPdf, buffers) ==
    IF buffers = <<>> THEN mergedPdf
    ELSE mergeLoop(mergedPdf \o copyPages(Head(buffers), getPageIndices(Head(buffers))).doc,
                   Tail(buffers))

\* PdfOperations.mergePDFs
PdfOperations_mergePDFs(buffers) ==
    [ok |-> TRUE, sel |-> Returned(<<>>), pdfDoc |-> <<>>, out |-> mergeLoop(<<>>, buffers)]

\* PdfTools.mergePDFs of the second variant: files.split(',') of an empty
\* string is one empty file, which PDFDocument.load cannot read.
PdfTools_mergePDFs(files) ==
    IF files = <<>> THEN Rejected
    ELSE [ok |-> TRUE, sel |-> Returned(<<>>), pdfDoc |-> <<>>,
          out |-> mergeLoop(<<>>, files)]

\* The page counts of the documents named for a merge, in the order named
\* (none, one or several documents, each with at least one page).
DocLists == UNION {[1..k -> 1..MaxPages] : k \in 0..MaxDocs}

InitMerge ==
    \E counts \in DocLists :
        /\ terms = <<>>
        /\ sep = <<>>
        /\ pages = <<>>
        /\ angle = 0
        /\ pdfBuffers = [d \in 1..Len(counts) |-> Doc(d, counts[d])]
        /\ ValidAttachments
        /\ NoBatch
        /\ Idle

\* PdfTools.execute, case Operation.Merge.
Merge ==
    \E r \in {IF Len(pdfBuffers) < 2 \/ ~PdfBinaryAccepted THEN Rejected
              ELSE PdfOperations_mergePDFs(pdfBuffers)} :
        Invoked("merge", 0, r)

\* PdfTools.execute of the second variant, case 'merge'.
MergeV2 ==
    \E r \in {IF ~AssertBinaryData THEN Rejected
              ELSE PdfTools_mergePDFs(pdfBuffers)} :
        Invoked("mergeV2", 0, r)

NextMerge == Merge \/ MergeV2

SpecMerge == InitMerge /\ [][NextMerge]_vars

\* ------------------------------------------------- add image, watermark
\* A page target that was not given (undefined), as opposed to the empty
\* string: no rendered expression equals it.
Undefined == <<"undefined">>

\* for (const pageIndex of targetPages) { page = pdfDoc.getPage(pageIndex);
\* page.drawImage(image, {x, y, width, height}) }: getPage of an index without
\* a page gives no page and the draw call on it throws, after the pages
\* before it were drawn on.
RECURSIVE drawImageEach(_, _, _)
drawImageEach(doc, targetPages, imageOptions) ==
    IF targetPages = <<>> THEN [ok |-> TRUE, doc |-> doc]
    ELSE IF ~HasPage(doc, Head(targetPages)) THEN [ok |-> FALSE, doc |-> doc]
    ELSE LET k == Head(targetPages) + 1
             call == [kind |-> "image", x |-> imageOptions.x, y |-> imageOptions.y]
         IN drawImageEach([doc EXCEPT ![k].draws = Append(doc[k].draws, call)],
                          Tail(targetPages), imageOptions)

\* The same loop of addWatermark: page.drawText(text, {x: width / 2,
\* y: height / 2, ...}).
RECURSIVE drawTextEach(_, _)
drawTextEach(doc, targetPages) ==
    IF targetPages = <<>> THEN [ok |-> TRUE, doc |-> doc]
    ELSE IF ~HasPage(doc, Head(targetPages)) THEN [ok |-> FALSE, doc |-> doc]
    ELSE LET k == Head(targetPages) + 1
             call == [kind |-> "text", x |-> doc[k].size.width \div 2,
                      y |-> doc[k].size.height \div 2]
         IN drawTextEach([doc EXCEPT ![k].draws = Append(doc[k].draws, call)],
                         Tail(targetPages))

\* PdfOperations.addImage
PdfOperations_addImage(pdfBuffer, imageType, pageTarget, imageOptions) ==
    LET targetPages == validatePageSelection(pageTarget, Len(pdfBuffer))
        r == drawImageEach(pdfBuffer, targetPages.pages, imageOptions)
    IN IF ~targetPages.ok \/ imageType \notin {"image/png", "image/jpeg"}
       THEN [ok |-> FALSE, sel |-> targetPages, pdfDoc |-> pdfBuffer, out |-> <<>>]
       ELSE [ok |-> r.ok, sel |-> targetPages, pdfDoc |-> r.doc,
             out |-> IF r.ok THEN r.doc ELSE <<>>]

\* PdfOperations.addWatermark: the literal 'all' is read here, every other
\* target goes to validatePageSelection.
PdfOperations_addWatermark(pdfBuffer, pageTarget) ==
    LET targetPages == IF pageTarget = <<"a", "l", "l">>
                       THEN Returned([i \in 1..Len(pdfBuffer) |-> i - 1])
                       ELSE validatePageSelection(pageTarget, Len(pdfBuffer))
        r == drawTextEach(pdfBuffer, targetPages.pages)
    IN IF ~targetPages.ok
       THEN [ok |-> FALSE, sel |-> targetPages, pdfDoc |-> pdfBuffer, out |-> <<>>]
       ELSE [ok |-> r.ok, sel |-> targetPages, pdfDoc |-> r.doc,
             out |-> IF r.ok THEN r.doc ELSE <<>>]

\* PdfTools.execute, case Operation.AddImage: the target is
\* options.watermarkOptions?.pageTarget || 'all'.
AddImage ==
    \E r \in {IF ~PdfBinaryAccepted \/ imageMimeType = "absent"
                 \/ ~ensureMimeType(imageMimeType, {"image/png", "image/jpeg"})
              THEN Rejected
              ELSE PdfOperations_addImage(pdfBuffers[1], imageMimeType,
                       IF pages = Undefined \/ pages = <<>>
                       THEN <<"a", "l", "l">> ELSE pages,
                       position)} :
        Invoked("addImage", Len(pdfBuffers[1]), r)

\* PdfTools.execute, case Operation.Watermark, with a watermark text given:
\* a target that is undefined takes the parameter default 'all'.
Watermark ==
    \E r \in {IF ~PdfBinaryAccepted THEN Rejected
              ELSE PdfOperations_addWatermark(pdfBuffers[1],
                       IF pages = Undefined THEN <<"a", "l", "l">> ELSE pages)} :
        Invoked("watermark", Len(pdfBuffers[1]), r)

\* One record with a document, a page target (or none) and a position.
Positions == {DefaultPosition, [x |-> 0, y |-> 0]}

InitDraw ==
    \E w \in Expressions \cup {[terms |-> <<>>, sep |-> <<>>]},
       n \in PageCounts, at \in Positions :
        /\ terms = w.terms
        /\ sep = w.sep
        /\ pages = (IF w.terms = <<>> THEN Undefined ELSE Join(w.terms, w.sep))
        /\ angle = 0
        /\ pdfBuffers = <<Doc(1, n)>>
        /\ mimeType = "application/pdf"
        /\ imageMimeType = "image/png"
        /\ position = at
        /\ NoBatch
        /\ Idle

NextDraw == AddImage \/ Watermark

SpecDraw == InitDraw /\ [][NextDraw]_vars

\* ------------------------------------- every operation that selects pages
\* One record with a document, a comma-separated page expression and a
\* quarter turn for the rotations.
InitPolicy ==
    \E w \in {e \in Expressions : e.sep = <<",">>}, n \in PageCounts :
        /\ terms = w.terms
        /\ sep = w.sep
        /\ pages = Join(w.terms, w.sep)
        /\ angle = 90
        /\ pdfBuffers = <<Doc(1, n)>>
        /\ ValidAttachments
        /\ NoBatch
        /\ Idle

NextPolicy ==
    \/ NextDelete
    \/ NextExtract
    \/ NextRotate
    \/ NextDraw

SpecPolicy == InitPolicy /\ [][NextPolicy]_vars

\* --------------------------------------------- attachments of any type
\* The declared types an attachment may carry, "absent" when the record has
\* no such attachment.  The content is a readable PDF whatever is declared.
DocumentTypes == {"application/pdf", "text/plain", "absent"}

ImageTypes == {"image/png", "image/jpeg", "image/gif", "absent"}

\* One record with a document of any declared type, an image of any declared
\* type and a one-term page expression.
InitValidate ==
    \E w \in {e \in Expressions : Len(e.terms) = 1}, n \in PageCounts,
       mt \in DocumentTypes, it \in ImageTypes :
        /\ terms = w.terms
        /\ sep = w.sep
        /\ pages = Join(w.terms, w.sep)
        /\ angle = 90
        /\ pdfBuffers = <<Doc(1, n)>>
        /\ mimeType = mt
        /\ imageMimeType = it
        /\ position = DefaultPosition
        /\ NoBatch
        /\ Idle

NextValidate ==
    \/ Delete
    \/ DeleteV2
    \/ ExtractPages
    \/ SplitCase
    \/ SplitV2
    \/ Reorder
    \/ ReorderV2
    \/ Rotate
    \/ RotateV2
    \/ AddImage
    \/ Watermark

SpecValidate == InitValidate /\ [][NextValidate]_vars

\* ----------------------------------------------------------------- batches
\* execute loops over the records of getInputData().  The single-invocation
\* variables stay idle while a batch runs.
single == <<inputs, operation, pageCount, selection, pdfDoc, outcome, output, turns>>

\* The page targets written in the records of a batch.
BatchPages == {Str(1), Str(2), <<"a", "l", "l">>}

\* The records handed to the first execute: an operation, its page
\* expression and a PDF attachment named 'pdf' with 1..MaxItemPages pages.
PdfToolsItems ==
    {[operation |-> op, pages |-> pg, pdfBinaryName |-> "pdf",
      mimeType |-> "application/pdf", pdf |-> n] :
        op \in {"extractPages", "watermark", "metadata"},
        pg \in BatchPages, n \in 1..MaxItemPages}

\* The records handed to the second variant's execute.
PdfToolsV2Items ==
    {[operation |-> op, pages |-> pg, pdfBinaryName |-> "pdfFile",
      mimeType |-> "application/pdf", pdf |-> n] :
        op \in {"delete", "split"},
        pg \in BatchPages, n \in 1..MaxItemPages}

\* The records handed to the Merge PDF node on its input 1 or 2, each
\* holding a one-page document of some declared type.
PdfMergeItems ==
    {[input |-> inp, mimeType |-> mt, pdf |-> 1] :
        inp \in {1, 2}, mt \in {"application/pdf", "text/plain"}}

\* The batches of up to m records over a set of records.
Batches(records, m) == UNION {[1..k -> records] : k \in 0..m}

\* The result item the first execute pushes for a Buffer result: the binary
\* is stored under the outer pdfBinaryName, which stays 'output' (the cases
\* declare their own constant of that name).
resultItem_UnderInputName(item, result) ==
    [kind |-> "binary", key |-> item.pdfBinaryName,
     fileName |-> item.pdfBinaryName \o ".pdf",
     mimeType |-> "application/pdf", data |-> result]

resultItem(item, result) ==
    [kind |-> "binary", key |-> "output", fileName |-> "output.pdf",
     mimeType |-> "application/pdf", data |-> result]

\* The item pushed for Operation.Metadata: json only.
metadataItem == [kind |-> "json", key |-> "", fileName |-> "", mimeType |-> "", data |-> <<>>]

\* The item the second variant pushes.
resultItemV2(result) ==
    [kind |-> "binary", key |-> "pdfFile", fileName |-> "",
     mimeType |-> "application/pdf", data |-> result]

\* The switch of the first execute on record k of the batch.
executeCase(item, k) ==
    LET accepted == item.mimeType # "absent"
                    /\ ensureMimeType(item.mimeType, {"application/pdf"})
        pdfBuffer == Doc(k, item.pdf)
    IN CASE item.operation = "extractPages" ->
              IF item.pages = <<>> \/ ~accepted THEN Rejected
              ELSE PdfOperations_extractPages(pdfBuffer, item.pages)
         [] item.operation = "watermark" ->
              IF ~accepted THEN Rejected
              ELSE PdfOperations_addWatermark(pdfBuffer, item.pages)
         [] item.operation = "metadata" ->
              IF ~accepted THEN Rejected
              ELSE [ok |-> TRUE, sel |-> Returned(<<>>), pdfDoc |-> pdfBuffer, out |-> <<>>]

\* The catch block of the first execute: console.error, then throw error.
catchError_ReturningPushed(pushed) == ReturnedData(pushed)

catchError(pushed) == ThrownError

\* One turn of the loop of the first execute.
ExecuteItem ==
    /\ node = "PdfTools"
    /\ returned = NotReturned
    /\ itemIndex <= Len(items)
    /\ LET item == items[itemIndex]
           r == executeCase(item, itemIndex)
       IN IF r.ok
          THEN /\ returnData' = Append(returnData,
                      <<IF item.operation = "metadata" THEN metadataItem
                        ELSE resultItem(item, r.out)>>)
               /\ itemIndex' = itemIndex + 1
               /\ UNCHANGED returned
          ELSE /\ returned' = catchError(returnData)
               /\ UNCHANGED <<returnData, itemIndex>>
    /\ UNCHANGED <<node, items, continueOnFail, propertyNames, single>>

\* return returnData, after the last record.
ExecuteReturn ==
    /\ node = "PdfTools"
    /\ returned = NotReturned
    /\ itemIndex > Len(items)
    /\ returned' = ReturnedData(returnData)
    /\ UNCHANGED <<node, items, continueOnFail, propertyNames, itemIndex, returnData, single>>

\* The switch of the second variant's execute on record k.
executeCaseV2(item, k) ==
    LET pdfLoaded == Doc(k, item.pdf)
    IN IF item.mimeType = "absent" THEN {Rejected}
       ELSE IF item.operation = "delete" THEN PdfTools_deletePages(pdfLoaded, item.pages)
       ELSE {PdfTools_splitPDF(pdfLoaded, item.pages)}

\* One turn of the loop of the second variant's execute: nothing catches.
ExecuteItemV2 ==
    /\ node = "PdfToolsV2"
    /\ returned = NotReturned
    /\ itemIndex <= Len(items)
    /\ \E r \in executeCaseV2(items[itemIndex], itemIndex) :
          IF r.ok
          THEN /\ returnData' = Append(returnData, resultItemV2(r.out))
               /\ itemIndex' = itemIndex + 1
               /\ UNCHANGED returned
          ELSE /\ returned' = ThrownError
               /\ UNCHANGED <<returnData, itemIndex>>
    /\ UNCHANGED <<node, items, continueOnFail, propertyNames, single>>

\* return [returnData]
ExecuteReturnV2 ==
    /\ node = "PdfToolsV2"
    /\ returned = NotReturned
    /\ itemIndex > Len(items)
    /\ returned' = ReturnedData(<<returnData>>)
    /\ UNCHANGED <<node, items, continueOnFail, propertyNames, itemIndex, returnData, single>>

\* The Merge PDF node: getInputData(0) and getInputData(1).
items1 == SelectSeq(items, LAMBDA it : it.input = 1)

items2 == SelectSeq(items, LAMBDA it : it.input = 2)

\* isPDFDocument of PdfMergeUtils, as its call sites describe it ("should be
\* a PDF file, was <mimeType> instead").
isPDFDocument(data) == data.mimeType = "application/pdf"

\* mergePdfs of PdfMergeUtils: the pages of the first document, then those
\* of the second.
mergePdfs(fileContent1, fileContent2) == fileContent1 \o fileContent2

\* The property names the node is configured with: the defaults, or three
\* different names.
PropertyNames ==
    {DefaultNames,
     [dataPropertyName1 |-> "first", dataPropertyName2 |-> "second",
      dataPropertyNameOut |-> "merged"]}

\* item.binary of an input item: its attachment (document d) under the
\* property name its input is configured with.
itemBinary(item, name, d) ==
    name :> [mimeType |-> item.mimeType, data |-> Doc(d, item.pdf)]

\* { ...item1.binary, ...item2.binary }: a later key replaces an earlier one.
spread(binary1, binary2) == binary2 @@ binary1

\* The item pushed for a merged pair, and the one pushed by the catch block
\* under continue-on-fail.
mergedItem(k, binary1, binary2, dataPropertyNameOut, merged) ==
    [kind |-> "merged", pair |-> k,
     binary |-> spread(spread(binary1, binary2),
                       dataPropertyNameOut :>
                           [mimeType |-> "application/pdf",
                            fileName |-> dataPropertyNameOut \o ".pdf",
                            data |-> merged])]

passedItem_FirstOnly(k, binary1, binary2) ==
    [kind |-> "passed", pair |-> k, binary |-> binary1]

passedItem(k, binary1, binary2) ==
    [kind |-> "passed", pair |-> k, binary |-> spread(binary1, binary2)]

\* The length check before the loop of PdfMerge.execute.
MergeStart ==
    /\ node = "PdfMerge"
    /\ returned = NotReturned
    /\ itemIndex = 0
    /\ IF Len(items1) # Len(items2)
       THEN returned' = ThrownError /\ UNCHANGED itemIndex
       ELSE itemIndex' = 1 /\ UNCHANGED returned
    /\ UNCHANGED <<node, items, continueOnFail, propertyNames, returnData, single>>

\* One turn of the loop of PdfMerge.execute, try and catch.
MergeItem ==
    /\ node = "PdfMerge"
    /\ returned = NotReturned
    /\ itemIndex >= 1
    /\ itemIndex <= Len(items1)
    /\ LET itemBinaryData1 == itemBinary(items1[itemIndex],
                                         propertyNames.dataPropertyName1,
                                         2 * itemIndex - 1)
           itemBinaryData2 == itemBinary(items2[itemIndex],
                                         propertyNames.dataPropertyName2,
                                         2 * itemIndex)
           docBinaryDataF == itemBinaryData1[propertyNames.dataPropertyName1]
           docBinaryDataS == itemBinaryData2[propertyNames.dataPropertyName2]
       IN IF isPDFDocument(docBinaryDataF) /\ isPDFDocument(docBinaryDataS)
          THEN /\ returnData' = Append(returnData,
                      mergedItem(itemIndex, itemBinaryData1, itemBinaryData2,
                                 propertyNames.dataPropertyNameOut,
                                 mergePdfs(docBinaryDataF.data, docBinaryDataS.data)))
               /\ itemIndex' = itemIndex + 1
               /\ UNCHANGED returned
          ELSE IF continueOnFail
          THEN /\ returnData' = Append(returnData,
                      passedItem(itemIndex, itemBinaryData1, itemBinaryData2))
               /\ itemIndex' = itemIndex + 1
               /\ UNCHANGED returned
          ELSE /\ returned' = ThrownAt(itemIndex)
               /\ UNCHANGED <<returnData, itemIndex>>
    /\ UNCHANGED <<node, items, continueOnFail, propertyNames, single>>

\* return [returnData]
MergeReturn ==
    /\ node = "PdfMerge"
    /\ returned = NotReturned
    /\ itemIndex > Len(items1)
    /\ returned' = ReturnedData(<<returnData>>)
    /\ UNCHANGED <<node, items, continueOnFail, propertyNames, itemIndex, returnData, single>>

\* The records handed to the page-extraction node: the pages parameter and
\* the base64 parameter holding a document.
SplitPdfItems ==
    {[pages |-> pg, pdf |-> n] : pg \in BatchPages, n \in 1..MaxItemPages}

\* The item the page-extraction node pushes.
extractedItem(result) ==
    [kind |-> "binary", key |-> "data", fileName |-> "extracted-pages.pdf",
     mimeType |-> "application/pdf", data |-> result]

\* One turn of the loop of SplitPdf.execute (page extraction): nothing
\* catches.
SplitPdfItem ==
    /\ node = "SplitPdf"
    /\ returned = NotReturned
    /\ itemIndex <= Len(items)
    /\ LET r == SplitPdf_execute(Doc(itemIndex, items[itemIndex].pdf),
                                 items[itemIndex].pages)
       IN IF r.ok
          THEN /\ returnData' = Append(returnData, extractedItem(r.out))
               /\ itemIndex' = itemIndex + 1
               /\ UNCHANGED returned
          ELSE /\ returned' = ThrownError
               /\ UNCHANGED <<returnData, itemIndex>>
    /\ UNCHANGED <<node, items, continueOnFail, propertyNames, single>>

\* return [returnItems]
SplitPdfReturn ==
    /\ node = "SplitPdf"
    /\ returned = NotReturned
    /\ itemIndex > Len(items)
    /\ returned' = ReturnedData(<<returnData>>)
    /\ UNCHANGED <<node, items, continueOnFail, propertyNames, itemIndex, returnData, single>>

\* The records handed to the per-page Split PDF node: a document under the
\* binary property 'data'.
PdfSplitItems ==
    {[binaryPropertyName |-> "data", pdf |-> n] : n \in 1..MaxItemPages}

\* The single-invocation variables other than the loaded document.
singleButDoc == <<inputs, operation, pageCount, selection, outcome, output, turns>>

\* The item the per-page node pushes for page i (1-based here, so the file
\* name `page-${i + 1}.pdf` of the 0-based loop is page-i.pdf).
pageItem_ZeroBased(binaryPropertyName, i, newPdf) ==
    [kind |-> "binary", key |-> binaryPropertyName,
     fileName |-> "page-" \o ToString(i - 1) \o ".pdf",
     mimeType |-> "application/pdf", data |-> newPdf]

pageItem(binaryPropertyName, i, newPdf) ==
    [kind |-> "binary", key |-> binaryPropertyName,
     fileName |-> "page-" \o ToString(i) \o ".pdf",
     mimeType |-> "application/pdf", data |-> newPdf]

\* The per-page node before its loop: only items[0] is read and loaded;
\* with no record at all, items[0] is undefined and reading it throws.
PdfSplitLoad ==
    /\ node = "PdfSplit"
    /\ returned = NotReturned
    /\ itemIndex = 0
    /\ IF items = <<>>
       THEN returned' = ThrownError /\ UNCHANGED <<itemIndex, pdfDoc>>
       ELSE /\ pdfDoc' = Doc(1, items[1].pdf)
            /\ itemIndex' = 1
            /\ UNCHANGED returned
    /\ UNCHANGED <<node, items, continueOnFail, propertyNames, returnData, singleButDoc>>

\* One turn of the loop over the pages of the loaded document.
PdfSplitPage ==
    /\ node = "PdfSplit"
    /\ returned = NotReturned
    /\ itemIndex >= 1
    /\ itemIndex <= Len(pdfDoc)
    /\ returnData' = Append(returnData,
           pageItem(items[1].binaryPropertyName, itemIndex,
                    copyPages(pdfDoc, <<itemIndex - 1>>).doc))
    /\ itemIndex' = itemIndex + 1
    /\ UNCHANGED <<node, items, continueOnFail, propertyNames, returned, single>>

\* return [returnItems]
PdfSplitReturn ==
    /\ node = "PdfSplit"
    /\ returned = NotReturned
    /\ itemIndex >= 1
    /\ itemIndex > Len(pdfDoc)
    /\ returned' = ReturnedData(<<returnData>>)
    /\ UNCHANGED <<node, items, continueOnFail, propertyNames, itemIndex, returnData, single>>

\* A batch handed to one of the nodes; no single invocation is under way.
InitBatch ==
    /\ terms = <<>>
    /\ sep = <<>>
    /\ pages = <<>>
    /\ angle = 0
    /\ pdfBuffers = <<>>
    /\ ValidAttachments
    /\ Idle
    /\ returnData = <<>>
    /\ returned = NotReturned
    /\ \/ /\ node = "PdfTools"
          /\ items \in Batches(PdfToolsItems, MaxItems)
          /\ continueOnFail = FALSE
          /\ propertyNames = DefaultNames
          /\ itemIndex = 1
       \/ /\ node = "PdfToolsV2"
          /\ items \in Batches(PdfToolsV2Items, MaxItems)
          /\ continueOnFail = FALSE
          /\ propertyNames = DefaultNames
          /\ itemIndex = 1
       \/ /\ node = "PdfMerge"
          /\ items \in Batches(PdfMergeItems, 2 * MaxItems)
          /\ continueOnFail \in BOOLEAN
          /\ propertyNames \in PropertyNames
          /\ itemIndex = 0
       \/ /\ node = "SplitPdf"
          /\ items \in Batches(SplitPdfItems, MaxItems)
          /\ continueOnFail = FALSE
          /\ propertyNames = DefaultNames
          /\ itemIndex = 1
       \/ /\ node = "PdfSplit"
          /\ items \in Batches(PdfSplitItems, MaxItems)
          /\ continueOnFail = FALSE
          /\ propertyNames = DefaultNames
          /\ itemIndex = 0

NextBatch ==
    \/ ExecuteItem
    \/ ExecuteReturn
    \/ ExecuteItemV2
    \/ ExecuteReturnV2
    \/ MergeStart
    \/ MergeItem
    \/ MergeReturn
    \/ SplitPdfItem
    \/ SplitPdfReturn
    \/ PdfSplitLoad
    \/ PdfSplitPage
    \/ PdfSplitReturn

SpecBatch == InitBatch /\ [][NextBatch]_vars

\* ------------------------------------------------------ the whole program
Init ==
    \/ InitPages
    \/ InitRotate
    \/ InitMerge
    \/ InitDraw
    \/ InitPolicy
    \/ InitValidate
    \/ InitBatch
    \/ InitTurns

Next ==
    \/ NextSelect
    \/ NextDelete
    \/ NextExtract
    \/ NextReorder
    \/ NextRotate
    \/ RotateAgain
    \/ RotateAgainV2
    \/ NextMerge
    \/ NextDraw
    \/ NextBatch

Spec == Init /\ [][Next]_vars

\* ------------------------------------------------- what the caller wrote
\* The pages a term names, in the order it names them (a range whose start
\* lies after its end names none).
TermPages(t, n) ==
    CASE t.kind = "page" -> <<t.a>>
      [] t.kind = "range" -> IF t.b < t.a THEN <<>>
                             ELSE [i \in 1..(t.b - t.a + 1) |-> t.a + i - 1]
      [] t.kind = "all" -> [i \in 1..n |-> i]
      [] OTHER -> <<>>

RECURSIVE NamedPages(_, _)
NamedPages(ts, n) ==
    IF ts = <<>> THEN <<>> ELSE TermPages(Head(ts), n) \o NamedPages(Tail(ts), n)

\* Every term is a page number or a range, with every number in 1..n.
NamesPagesOnly(ts, n) ==
    /\ ts # <<>>
    /\ \A k \in 1..Len(ts) :
          /\ ts[k].kind \in {"page", "range"}
          /\ ts[k].a \in 1..n
          /\ ts[k].b \in 1..n

\* The input document, and its pages as page numbers.
Source == pdfBuffers[1]

PageNumbers(doc) == [k \in 1..Len(doc) |-> doc[k].num]

DeleteRan == operation \in {"delete", "deleteV2"}

\* C1: delete leaves exactly the original pages the expression does not name,
\* in their original order, whenever every term names pages in 1..n (in any
\* order, with or without repeats).
C1_DeleteIndexShiftSafe ==
    (DeleteRan /\ NamesPagesOnly(terms, pageCount)) =>
        /\ outcome = "ok"
        /\ output = SelectSeq(Source,
                        LAMBDA pg : pg.num \notin Range(NamedPages(terms, pageCount)))

\* C2: in every parser, an expression that is "all" once trimmed and
\* case-folded resolves to the indices 0 .. pageCount-1 in ascending order.
Parsers == {"validatePageSelection", "parsePageSelection", "parsePageRanges"}

IsAllExpression(p) == LowerCase(Trim(p)) = <<"a", "l", "l">>

AllIndices(n) == [i \in 1..n |-> i - 1]

C2_AllResolvesEveryPage ==
    (operation \in Parsers /\ IsAllExpression(pages)) =>
        /\ selection.ok
        /\ selection.pages = AllIndices(pageCount)

\* C3: whatever a parser returns, every element is an integer index with
\* 0 <= index < pageCount.
IsIndex(x, n) == ~IsNaN(x) /\ 0 <= x /\ x < n

C3_ResolvedIndicesInRange ==
    (operation \in Parsers /\ outcome = "ok") =>
        \A k \in 1..Len(selection.pages) : IsIndex(selection.pages[k], pageCount)

\* C4: after a rotate by angle a, a selected page that stood at r stands at
\* the value of [0, 360) congruent to r + a (stated for the pages the
\* resolved selection lists once, which are turned once).
RotateRan == operation \in {"rotate", "rotateV2"}

Occurrences(s, x) == Cardinality({k \in 1..Len(s) : s[k] = x})

C4_RotateFloorModulo ==
    (RotateRan /\ outcome = "ok") =>
        \A k \in 1..Len(Source) :
            Occurrences(selection.pages, k - 1) = 1 =>
                output[k].rot = (Source[k].rot + angle) % 360

\* C5: outside reorder, the indices an operation works on are strictly
\* ascending, with no index repeated, whatever the order and repetition of
\* the terms (checked on extract and split, for terms naming pages in 1..n).
ExtractRan == operation \in {"extractPages", "split", "splitV2", "SplitPdf"}

StrictlyAscending(s) == \A k \in 1..(Len(s) - 1) : Lt(s[k], s[k + 1])

C5_SelectionSortedDeduplicated ==
    (ExtractRan /\ NamesPagesOnly(terms, pageCount) /\ selection.ok) =>
        StrictlyAscending(selection.pages)

\* C6 as claimed: for every order expression whose terms name pages in 1..n,
\* reorder outputs the named pages in the order written, ranges expanded in
\* place.
ReorderRan == operation \in {"reorder", "reorderV2"}

CommaSeparated == Len(terms) = 1 \/ sep \in {<<",">>, <<",", " ">>}

\* What each reorder reads from in-range terms: PdfOperations.reorderPages
\* the named pages with ranges expanded in place, the second variant the
\* first number of every term.
OrderRead ==
    IF operation = "reorder" THEN NamedPages(terms, pageCount)
    ELSE [k \in 1..Len(terms) |-> terms[k].a]

MergeRan == operation \in {"merge", "mergeV2"}

RECURSIVE SumOfLengths(_)
SumOfLengths(docs) ==
    IF docs = <<>> THEN 0 ELSE Len(Head(docs)) + SumOfLengths(Tail(docs))

C7_MergeConcatenates ==
    (MergeRan /\ Len(pdfBuffers) >= 2) =>
        /\ outcome = "ok"
        /\ output = Flat(pdfBuffers)
        /\ Len(output) = SumOfLengths(pdfBuffers)

\* Documents of 2 and 3 pages give 5: pages 1-2 of the first, 1-3 of the second.
C7_Witness ==
    /\ operation = "merge"
    /\ outcome = "ok"
    /\ [k \in 1..Len(output) |-> <<output[k].doc, output[k].num>>] =
           <<<<1, 1>>, <<1, 2>>, <<2, 1>>, <<2, 2>>, <<2, 3>>>>

\* C8: a merge given fewer than two documents fails and outputs nothing.
C8_MergeNeedsTwo ==
    (MergeRan /\ Len(pdfBuffers) < 2) =>
        /\ outcome = "error"
        /\ output = <<>>

\* C9: extract and split output the selected pages by ascending original
\* page number, whatever the order of the terms (stated for expressions that
\* name no page twice, so that only the order is at stake).
NoPageTwice(s) == \A j, k \in 1..Len(s) : j # k => s[j] # s[k]

C9_ExtractAscending ==
    (/\ ExtractRan
     /\ NamesPagesOnly(terms, pageCount)
     /\ NoPageTwice(NamedPages(terms, pageCount))) =>
        /\ outcome = "ok"
        /\ PageNumbers(output) = SortAsc(Dedup(NamedPages(terms, pageCount)))

\* C10: the extracted document has as many pages as distinct pages were
\* selected.
C10_ExtractPageCount ==
    (ExtractRan /\ NamesPagesOnly(terms, pageCount)) =>
        /\ outcome = "ok"
        /\ Len(output) = Cardinality(Range(NamedPages(terms, pageCount)))

DrawRan == operation \in {"addImage", "watermark"}

\* The target "all", or no target given.
TargetsAll == pages = <<"a", "l", "l">> \/ pages = Undefined

\* C11: add-image and watermark with the target "all", or with no target
\* given, succeed and leave exactly one draw call on every page of a
\* document of one or more pages.
C11_AllTouchesEveryPageOnce ==
    (DrawRan /\ TargetsAll /\ Len(Source) >= 1) =>
        /\ outcome = "ok"
        /\ Len(output) = Len(Source)
        /\ \A k \in 1..Len(output) : Len(output[k].draws) = 1

\* C12: every parser resolves the empty expression to the empty sequence,
\* without an error, for every page count.
C12_EmptyExpressionResolvesEmpty ==
    (operation \in Parsers /\ pages = <<>>) =>
        /\ selection.ok
        /\ selection.pages = <<>>

\* Every term is a range written start-end with start > end, both in 1..n.
AllReversed(ts, n) ==
    /\ ts # <<>>
    /\ \A k \in 1..Len(ts) :
          /\ ts[k].kind = "range"
          /\ ts[k].a \in 1..n
          /\ ts[k].b \in 1..n
          /\ ts[k].a > ts[k].b

\* C13: an expression of reversed ranges within 1..n resolves to the empty
\* sequence in every parser, without an error: no parser swaps the ends.
C13_ReversedRangeIsEmpty ==
    (operation \in Parsers /\ AllReversed(terms, pageCount)) =>
        /\ outcome = "ok"
        /\ selection.ok
        /\ selection.pages = <<>>

C13_Witness ==
    /\ operation = "validatePageSelection"
    /\ terms = <<RangeTerm(3, 1)>>
    /\ pages = <<"3", "-", "1">>
    /\ pageCount = 3
    /\ outcome = "ok"
    /\ selection.pages = <<>>

\* Some term cannot be parsed into a number.
HasUnparsableTerm(ts) == \E k \in 1..Len(ts) : ts[k].kind \in {"empty", "word"}

\* C15: validatePageSelection throws for every non-empty comma-separated
\* expression with a term that cannot be parsed into a number.
C15_StrictRejectsUnparsable ==
    (operation = "validatePageSelection" /\ pages # <<>>
        /\ HasUnparsableTerm(terms) /\ CommaSeparated) =>
        /\ outcome = "error"
        /\ ~selection.ok

\* What a parser resolved, as a set (or that it threw).
ResolvedSet(r) == [ok |-> r.ok, set |-> Range(r.pages)]

\* C17: for terms naming pages in 1..n, the set a parser resolved is the set
\* each of the three parsers resolves from the same terms joined by any of
\* the separators.
C17_ParsersAgree ==
    (operation \in Parsers /\ NamesPagesOnly(terms, pageCount)) =>
        \A sp \in Separators :
            LET written == Join(terms, sp)
            IN /\ ResolvedSet(validatePageSelection(written, pageCount)) = ResolvedSet(selection)
               /\ ResolvedSet(parsePageSelection(written, pageCount)) = ResolvedSet(selection)
               /\ ResolvedSet(parsePageRanges(written, pageCount)) = ResolvedSet(selection)

\* The pages of 1..n the terms name, as ascending indices without repeats.
InRangeIndices(ts, n) ==
    SortAsc(Dedup(SelectSeq([k \in 1..Len(NamedPages(ts, n)) |-> NamedPages(ts, n)[k] - 1],
                            LAMBDA x : x >= 0 /\ x < n)))

\* C14: delete, extract and split fail, with no output document, whenever
\* the expression names no page of the document.
C14_EmptySelectionRejected ==
    ((DeleteRan \/ ExtractRan) /\ pageCount >= 1 /\ InRangeIndices(terms, pageCount) = <<>>) =>
        /\ outcome = "error"
        /\ output = <<>>

\* Every term is a page number or a range.
NumbersOnly(ts) == ts # <<>> /\ \A k \in 1..Len(ts) : ts[k].kind \in {"page", "range"}

\* Some term names a page outside 1..n.
HasOutOfRangePage(ts, n) == \E p \in Range(NamedPages(ts, n)) : p \notin 1..n

\* The operations of PdfOperations, which resolve with validatePageSelection.
StrictOperations == {"delete", "extractPages", "split", "rotate", "addImage", "watermark"}

\* The operations of the second variant that resolve with parsePageSelection.
LenientOperations == {"rotateV2", "splitV2"}

BadAttachment ==
    \/ mimeType # "application/pdf"
    \/ operation = "addImage" /\ imageMimeType \notin {"image/png", "image/jpeg"}

\* C18: an execute case given a bad attachment, and an expression naming
\* pages of the document, fails before a document is loaded, changed, copied
\* or saved.
C18_ValidationPrecedesWork ==
    (operation # "none" /\ BadAttachment /\ NamesPagesOnly(terms, pageCount)) =>
        /\ outcome = "error"
        /\ pdfDoc = <<>>
        /\ output = <<>>

\* Whether the work on some record of the batch raises an error out of
\* execute: a failing case in either PdfTools execute; in the Merge PDF node
\* unequal input lengths, or a pair that is not two PDFs while
\* continue-on-fail is off.
ErrorRaised ==
    CASE node = "PdfTools" ->
           \E k \in 1..Len(items) : ~executeCase(items[k], k).ok
      [] node = "PdfToolsV2" ->
           \E k \in 1..Len(items) : \E r \in executeCaseV2(items[k], k) : ~r.ok
      [] node = "PdfMerge" ->
           \/ Len(items1) # Len(items2)
           \/ /\ ~continueOnFail
              /\ \E k \in 1..Len(items1) :
                    ~(isPDFDocument(items1[k]) /\ isPDFDocument(items2[k]))
      [] node = "SplitPdf" ->
           \E k \in 1..Len(items) : ~SplitPdf_execute(Doc(k, items[k].pdf), items[k].pages).ok
      [] node = "PdfSplit" -> items = <<>>
      [] OTHER -> FALSE

\* The number of records handed to execute.
RecordCount == IF node = "PdfMerge" THEN Len(items1) ELSE Len(items)

\* The number of items a complete result holds: one per record, and for the
\* per-page node one per page of the document it loaded.
CompleteCount == IF node = "PdfSplit" THEN Len(pdfDoc) ELSE RecordCount

\* C19: once execute has ended, it has either thrown and handed back nothing
\* (when some record's error was raised, whatever was pushed for earlier
\* records), or handed back one item per record, or per page in the per-page
\* node (under continue-on-fail the item of a failed pair carries the inputs
\* only).
C19_NoPartialOutput ==
    (node # "none" /\ returned # NotReturned) =>
        IF ErrorRaised
        THEN returned.state = "thrown" /\ returned.data = <<>>
        ELSE returned.state = "returned" /\ Len(Flat(returned.data)) = CompleteCount

C19_Witness ==
    /\ node = "PdfTools"
    /\ Len(items) = 2
    /\ itemIndex = 2
    /\ Len(returnData) = 1
    /\ returned = ThrownError

\* The operations of the first execute that produce a PDF.
PdfProducing == {"extractPages", "watermark"}

AllSucceed ==
    /\ ~ErrorRaised
    /\ node = "PdfMerge" =>
          \A k \in 1..Len(items1) : isPDFDocument(items1[k]) /\ isPDFDocument(items2[k])

\* Result res was computed from record k: its pages are pages of record k's
\* document (of pair k's documents in the Merge PDF node).
FromRecord(res, k) ==
    IF node = "PdfMerge" THEN res.pair = k
    ELSE \A j \in 1..Len(res.data) : res.data[j].doc = k

\* C21: when every record succeeds, execute returns one result per record,
\* in input order, the k-th computed from the k-th record.
C21_OneResultPerRecord ==
    (node # "none" /\ returned.state = "returned" /\ AllSucceed) =>
        LET results == Flat(returned.data)
        IN /\ Len(results) = RecordCount
           /\ \A k \in 1..Len(results) : FromRecord(results[k], k)

\* C28: the per-page Split PDF node returns, for a document of n pages, n
\* items in page order, the i-th holding a one-page document that is a copy
\* of page i under the file name page-i.pdf, and leaves the loaded document
\* as it was.
C28_OneItemPerPage ==
    (node = "PdfSplit" /\ returned.state = "returned") =>
        LET source == Doc(1, items[1].pdf)
            results == Flat(returned.data)
        IN /\ Len(returned.data) = 1
           /\ Len(results) = Len(source)
           /\ \A i \in 1..Len(results) :
                 /\ results[i].data = <<source[i]>>
                 /\ results[i].fileName = "page-" \o ToString(i) \o ".pdf"
           /\ pdfDoc = source

C28_Witness ==
    /\ node = "PdfSplit"
    /\ items # <<>>
    /\ items[1].pdf = 2
    /\ returned.state = "returned"
    /\ Len(returned.data[1]) = 2
    /\ returned.data[1][2].fileName = "page-2.pdf"

\* Pair k of the Merge PDF node fails: one of its attachments is not a PDF.
PairFails(k) == ~(isPDFDocument(items1[k]) /\ isPDFDocument(items2[k]))

\* Some property of the binary data holds this attachment.
Carries(binary, attachment) == \E key \in DOMAIN binary : binary[key] = attachment

Unmutated == pdfDoc = <<>> \/ pdfDoc = Source

\* C22: a delete or rotate invocation that fails on an expression with an
\* out-of-range or unparsable term has made no removePage or setRotation
\* call on the document.
C22_ResolutionBeforeMutation ==
    (/\ DeleteRan \/ RotateRan
     /\ outcome = "error"
     /\ HasOutOfRangePage(terms, pageCount) \/ HasUnparsableTerm(terms)) =>
        Unmutated

\* C23: rotate changes each page the expression names by the angle exactly
\* once, however often the page is named or covered (stated for the angles
\* the option list offers, all positive).
C23_RotateOncePerPage ==
    (RotateRan /\ NamesPagesOnly(terms, pageCount) /\ angle \in OptionAngles) =>
        /\ outcome = "ok"
        /\ \A k \in Range(NamedPages(terms, pageCount)) :
              output[k].rot = (Source[k].rot + angle) % 360

\* C24: Add Watermark draws on every target page at the position the caller
\* supplied, whatever the page's size.
C24_WatermarkAtSuppliedPosition ==
    (operation = "watermark" /\ outcome = "ok") =>
        \A k \in 1..Len(output) :
            \A d \in Range(output[k].draws) :
                d.kind = "text" => d.x = position.x /\ d.y = position.y

ReadsOutOfRangePage ==
    IF operation = "reorder" THEN HasOutOfRangePage(terms, pageCount)
    ELSE \E k \in 1..Len(terms) :
            terms[k].kind \in {"page", "range"} /\ terms[k].a \notin 1..pageCount

C26_RotateLeavesRestUnchanged ==
    (RotateRan /\ outcome = "ok") =>
        /\ Len(output) = Len(Source)
        /\ \A k \in 1..Len(Source) :
              /\ [output[k] EXCEPT !.rot = Source[k].rot] = Source[k]
              /\ (k - 1) \notin Range(selection.pages) =>
                    output[k].rot = Source[k].rot

\* Page 2 of three is turned, pages 1 and 3 are not.
C26_Witness ==
    /\ RotateRan
    /\ outcome = "ok"
    /\ Len(Source) = 3
    /\ selection.pages = <<1>>
    /\ output[2].rot # Source[2].rot
    /\ output[1].rot = Source[1].rot
    /\ output[3].rot = Source[3].rot

RECURSIVE Sum(_)
Sum(s) == IF s = <<>> THEN 0 ELSE Head(s) + Sum(Tail(s))

\* C29: after a rotate followed by further rotates of the same pages, every
\* page named has the rotation (initial + sum of all angles) reduced into
\* [0, 360); so a turn by a followed by one by -a restores the rotation.
C29_RotationComposes ==
    (/\ RotateRan
     /\ outcome = "ok"
     /\ turns # <<>>
     /\ NamesPagesOnly(terms, pageCount)
     /\ NoPageTwice(NamedPages(terms, pageCount))) =>
        \A k \in Range(NamedPages(terms, pageCount)) :
            output[k].rot = (Source[k].rot + angle + Sum(turns)) % 360

\* C30: for an expression over pages 1..n that delete and extract both
\* accept, the pages extract returns and the pages delete leaves are disjoint
\* sets of original pages and together are all n pages.
C30_ExtractDeleteComplementary ==
    (operation = "delete" /\ outcome = "ok" /\ NamesPagesOnly(terms, pageCount)) =>
        LET extracted == PdfOperations_extractPages(Source, pages)
            taken == Range(PageNumbers(extracted.out))
            left == Range(PageNumbers(output))
        IN extracted.ok =>
              /\ taken \cap left = {}
              /\ taken \cup left = 1..Len(Source)

====
